---- MODULE Spec2Model ----
(***************************************************************************)
(* MokAInight (assignment3_analysis.py): one run of the Streamlit script.  *)
(* The two CSV files and the widget values the browser holds are the       *)
(* environment; the script loads the dataset, reads the widgets and, when  *)
(* "Show Movies" was pressed, runs the filter / search / sort / sample /   *)
(* truncate pipeline of main() line by line and renders the cards.         *)
(*                                                                         *)
(* Text cells are tuples of one-character strings, so that the substring   *)
(* test of `in` and the regular-expression search of str.contains are      *)
(* computed on characters.  A missing cell is NaN; a rating is a number of *)
(* tenths; a Timestamp is its year*10000 + month*100 + day, or NaT.        *)
(***************************************************************************)
EXTENDS Integers, Sequences, FiniteSets, TLC

\* ------------------------------------------------------------------ bounds
\* longest main table of a session in which every widget is free
MaxRows == 2
\* longest main table of a session that only scrolls through the whole list
MaxRowsLarge == 11
\* longest main table of a session that samples from the whole list
MaxRowsSample == 6

\* ------------------------------------------------------- program constants
\* surprise_sample(df, count=5)
SampleCount == 5
\* filtered_df.head(10)
HeadCount == 10

\* ------------------------------------------------------------ cell values
\* a missing cell, as read_csv yields it (never equal to a text cell: its
\* single element is not a one-character string)
NaN == <<"NaN">>
\* a missing Timestamp
NaT == [valid |-> FALSE, ymd |-> 0]

Timestamp(d) == [valid |-> TRUE, ymd |-> d]

\* str.lower on one character of the alphabet the tables use
LowerChar(c) ==
    CASE c = "A" -> "a"
      [] c = "B" -> "b"
      [] c = "C" -> "c"
      [] c = "D" -> "d"
      [] c = "H" -> "h"
      [] c = "N" -> "n"
      [] c = "R" -> "r"
      [] c = "U" -> "u"
      [] c = "W" -> "w"
      [] OTHER -> c

\* str.lower
Lower(s) == [i \in 1..Len(s) |-> LowerChar(s[i])]

\* Python's `a in b` on strings: a occurs in b as a contiguous run
IsSubstr(a, b) ==
    \E k \in 0..(Len(b) - Len(a)) :
        \A i \in 1..Len(a) : b[k + i] = a[i]

\* the elements of a sequence
Range(V) == { V[i] : i \in 1..Len(V) }

\* str.split(", ") on one cell: the pieces between the separators
RECURSIVE split(_)
split(txt) ==
    LET cuts == { k \in 1..(Len(txt) - 1) : txt[k] = "," /\ txt[k + 1] = " " }
    IN  IF cuts = {}
        THEN << txt >>
        ELSE LET k == CHOOSE c \in cuts : \A d \in cuts : c <= d
             IN  << SubSeq(txt, 1, k - 1) >> \o split(SubSeq(txt, k + 2, Len(txt)))

\* ------------------------------------------------------------- input data
\* rows of data/movies_complete.csv as read_csv yields them, every cell as
\* the characters that stand in the file, or NaN for an empty cell
Catalogue ==
    <<
       [title |-> <<"U", "p">>, overview |-> <<"o">>,
        genres |-> <<"W", "a", "r">>,
        cast |-> <<"A", "l">>, directors |-> <<"B", "o">>,
        rating |-> <<"8", ".", "8">>,
        release_date |-> <<"2", "0", "1", "0", "-", "0", "7", "-", "1", "6">>],
       [title |-> <<"R", "a", "n">>, overview |-> NaN,
        genres |-> <<"C", "o", "l", "d", " ", "W", "a", "r">>,
        cast |-> NaN, directors |-> <<"A", ".", "B">>,
        rating |-> <<"8", ".", "8">>,
        release_date |-> <<"u", "n", "k", "n", "o", "w", "n">>],
       [title |-> <<"H", "e", "r">>, overview |-> <<"o">>,
        genres |-> <<"D", "r", "a", "m", "a", ",", " ", "W", "a", "r">>,
        cast |-> <<"A", "n">>, directors |-> NaN,
        rating |-> NaN,
        release_date |-> <<"2", "0", "1", "0", "-", "0", "7", "-", "1", "6">>],
       [title |-> <<"U", "p">>, overview |-> <<"o">>,
        genres |-> NaN,
        cast |-> <<"A", "l">>, directors |-> <<"C", "y">>,
        rating |-> <<"a", "b", "c">>,
        release_date |-> <<"1", "8", "9", "5", "-", "1", "2", "-", "2", "8">>],
       [title |-> <<"W", "a", "r">>, overview |-> <<"o">>,
        genres |-> <<"D", "r", "a", "m", "a">>,
        cast |-> <<"B", "o">>, directors |-> <<"A", "l">>,
        rating |-> <<"7", ".", "9">>,
        release_date |-> <<"1", "9", "9", "7", "-", "1", "2", "-", "1", "9">>],
       [title |-> <<"H", "e", "r", "o">>, overview |-> NaN,
        genres |-> <<"W", "a", "r">>,
        cast |-> NaN, directors |-> <<"C", "y">>,
        rating |-> <<"7", ".", "9">>,
        release_date |-> <<"1", "9", "9", "7", "-", "1", "2", "-", "1", "9">>],
       [title |-> <<"B", "i", "g">>, overview |-> <<"o">>,
        genres |-> <<"D", "r", "a", "m", "a">>,
        cast |-> <<"A", "l">>, directors |-> <<"B", "o">>,
        rating |-> <<"6", ".", "1">>,
        release_date |-> <<"2", "0", "0", "1", "-", "0", "1", "-", "0", "1">>],
       [title |-> <<"C", "a", "b">>, overview |-> <<"o">>,
        genres |-> <<"W", "a", "r">>,
        cast |-> <<"A", "l">>, directors |-> <<"B", "o">>,
        rating |-> <<"6", ".", "2">>,
        release_date |-> <<"2", "0", "0", "2", "-", "0", "2", "-", "0", "2">>],
       [title |-> <<"D", "a", "d">>, overview |-> <<"o">>,
        genres |-> <<"D", "r", "a", "m", "a">>,
        cast |-> <<"A", "l">>, directors |-> <<"B", "o">>,
        rating |-> <<"6", ".", "3">>,
        release_date |-> <<"2", "0", "0", "3", "-", "0", "3", "-", "0", "3">>],
       [title |-> <<"E", "l", "f">>, overview |-> <<"o">>,
        genres |-> <<"W", "a", "r">>,
        cast |-> <<"A", "l">>, directors |-> <<"B", "o">>,
        rating |-> <<"6", ".", "4">>,
        release_date |-> <<"2", "0", "0", "4", "-", "0", "4", "-", "0", "4">>],
       [title |-> <<"F", "o", "g">>, overview |-> <<"o">>,
        genres |-> <<"D", "r", "a", "m", "a">>,
        cast |-> <<"A", "l">>, directors |-> <<"B", "o">>,
        rating |-> <<"6", ".", "5">>,
        release_date |-> <<"2", "0", "0", "5", "-", "0", "5", "-", "0", "5">>],
       [title |-> <<"G", "u", "n">>, overview |-> <<"o">>,
        genres |-> <<"W", "a", "r">>,
        cast |-> <<"A", "l">>, directors |-> <<"B", "o">>,
        rating |-> <<"6", ".", "6">>,
        release_date |-> <<"2", "0", "0", "6", "-", "0", "6", "-", "0", "6">>],
       [title |-> <<"H", "u", "d">>, overview |-> <<"o">>,
        genres |-> <<"D", "r", "a", "m", "a">>,
        cast |-> <<"A", "l">>, directors |-> <<"B", "o">>,
        rating |-> <<"6", ".", "7">>,
        release_date |-> <<"2", "0", "0", "7", "-", "0", "7", "-", "0", "7">>]
    >>

\* the i-th row of the file (the catalogue repeats)
CsvRow(i) == Catalogue[(i % Len(Catalogue)) + 1]

\* the catalogue rows a main table may start at
Starts == {0, 1, 2}

\* a main table: n consecutive rows from row `start` on
MainCsv(start, n) == [i \in 1..n |-> CsvRow(start + i - 1)]

\* data/movies.csv: the side tables a session may find
RatingsTables ==
    { [columns |-> {"title", "age_rating"},
       rows |-> << [title |-> <<"U", "p">>, age_rating |-> <<"P", "G">>],
                   [title |-> <<"R", "a", "n">>, age_rating |-> <<"R">>] >>],
      [columns |-> {"title", "age_rating"},
       rows |-> << [title |-> <<"U", "p">>, age_rating |-> <<"P", "G">>],
                   [title |-> <<"U", "p">>, age_rating |-> <<"R">>] >>],
      [columns |-> {"title", "age_rating"},
       rows |-> << [title |-> <<"H", "e", "r">>, age_rating |-> NaN] >>],
      [columns |-> {"title", "certificate"},
       rows |-> << [title |-> <<"U", "p">>, certificate |-> <<"P", "G">>] >>],
      [columns |-> {"name", "age_rating"},
       rows |-> << [name |-> <<"U", "p">>, age_rating |-> <<"P", "G">>] >>] }

\* what the user may have typed into the search box (None: no value)
NoneQuery == <<"None">>

Queries ==
    { NoneQuery,
      <<>>,
      <<"b", "o">>,
      <<"U", "P">>,
      <<".">>,
      <<"a", "*">>,
      <<"(">>,
      <<"[">> }

\* ------------------------------------------------------------- load_data
\* Series.fillna("") on a text column
fillna(cell) == IF cell = NaN THEN <<>> ELSE cell

\* the value of a decimal digit, or -1 for any other character
Digit(c) ==
    CASE c = "0" -> 0 [] c = "1" -> 1 [] c = "2" -> 2 [] c = "3" -> 3
      [] c = "4" -> 4 [] c = "5" -> 5 [] c = "6" -> 6 [] c = "7" -> 7
      [] c = "8" -> 8 [] c = "9" -> 9 [] OTHER -> 0 - 1

IsDigits(s) == \A i \in 1..Len(s) : Digit(s[i]) >= 0

\* the number a run of digits writes
RECURSIVE DigitsValue(_)
DigitsValue(s) ==
    IF s = <<>> THEN 0
    ELSE 10 * DigitsValue(SubSeq(s, 1, Len(s) - 1)) + Digit(s[Len(s)])

\* pd.to_numeric(errors="coerce") on one cell, in tenths ("d" or "d.d"):
\* a cell that does not read as a number becomes NaN
to_numeric(cell) ==
    IF cell # NaN /\ Len(cell) = 1 /\ IsDigits(cell)
    THEN [nan |-> FALSE, val |-> 10 * Digit(cell[1])]
    ELSE IF /\ cell # NaN
            /\ Len(cell) = 3
            /\ cell[2] = "."
            /\ Digit(cell[1]) >= 0
            /\ Digit(cell[3]) >= 0
         THEN [nan |-> FALSE, val |-> 10 * Digit(cell[1]) + Digit(cell[3])]
         ELSE [nan |-> TRUE, val |-> 0]

\* Series.fillna(0) on the numeric column
fillna_zero(x) == IF x.nan THEN 0 ELSE x.val

\* to_datetime followed by fillna(Timestamp("1900-01-01")): a cell that does
\* not read as a date becomes the date 1900-01-01
to_datetime_sentinel(cell) ==
    IF /\ cell # NaN
       /\ Len(cell) = 10
       /\ cell[5] = "-"
       /\ cell[8] = "-"
       /\ IsDigits(SubSeq(cell, 1, 4))
       /\ IsDigits(SubSeq(cell, 6, 7))
       /\ IsDigits(SubSeq(cell, 9, 10))
       /\ DigitsValue(SubSeq(cell, 6, 7)) \in 1..12
       /\ DigitsValue(SubSeq(cell, 9, 10)) \in 1..31
    THEN Timestamp(10000 * DigitsValue(SubSeq(cell, 1, 4))
                   + 100 * DigitsValue(SubSeq(cell, 6, 7))
                   + DigitsValue(SubSeq(cell, 9, 10)))
    ELSE Timestamp(19000101)

\* pd.to_datetime(errors="coerce") on one cell ("YYYY-MM-DD"): a cell that
\* does not read as a date becomes NaT
to_datetime(cell) ==
    IF /\ cell # NaN
       /\ Len(cell) = 10
       /\ cell[5] = "-"
       /\ cell[8] = "-"
       /\ IsDigits(SubSeq(cell, 1, 4))
       /\ IsDigits(SubSeq(cell, 6, 7))
       /\ IsDigits(SubSeq(cell, 9, 10))
       /\ DigitsValue(SubSeq(cell, 6, 7)) \in 1..12
       /\ DigitsValue(SubSeq(cell, 9, 10)) \in 1..31
    THEN Timestamp(10000 * DigitsValue(SubSeq(cell, 1, 4))
                   + 100 * DigitsValue(SubSeq(cell, 6, 7))
                   + DigitsValue(SubSeq(cell, 9, 10)))
    ELSE NaT

\* lines 21-26: the normalised main-table row.  The main table carries the
\* rating and release_date columns (the fields the data model requires), so
\* df_main.get returns the column and never its default
Normalise(r) ==
    [title |-> r.title,
     overview |-> fillna(r.overview),
     genres |-> fillna(r.genres),
     cast |-> fillna(r.cast),
     directors |-> fillna(r.directors),
     rating |-> fillna_zero(to_numeric(r.rating)),
     release_date |-> to_datetime(r.release_date)]

\* the concatenation of a sequence of sequences
RECURSIVE Concat(_)
Concat(ss) == IF ss = <<>> THEN <<>> ELSE Head(ss) \o Concat(Tail(ss))

\* pd.merge(..., how="inner"): a main row without a side row is dropped
merge_inner(main, side) ==
    Concat([i \in 1..Len(main) |->
        LET hits == SelectSeq(side, LAMBDA t : t.title = main[i].title)
        IN  [k \in 1..Len(hits) |->
                main[i] @@ [age_rating |-> hits[k].age_rating]]])

\* pd.merge(df_main, df_ratings[["title", "age_rating"]], on="title",
\* how="left"): every main row once per side row of its title, in main
\* order, or once with a missing age_rating when no side row has its title
merge_left(main, side) ==
    Concat([i \in 1..Len(main) |->
        LET hits == SelectSeq(side, LAMBDA t : t.title = main[i].title)
        IN  IF hits = <<>>
            THEN << main[i] @@ [age_rating |-> NaN] >>
            ELSE [k \in 1..Len(hits) |->
                     main[i] @@ [age_rating |-> hits[k].age_rating]]])

\* the RangeIndex of a fresh frame: row k carries index label k - 1
WithIndex(rows) == [k \in 1..Len(rows) |-> rows[k] @@ [idx |-> k - 1]]

\* load_data(): what the script gets from the two files
\*   outcome "stop": st.error + st.stop(), nothing is returned
\*   outcome "ok":   the frame, and the warning shown on the way if any
load_data(mainExists, mainCsv, ratingsExists, ratingsCsv) ==
    IF ~mainExists
    THEN [outcome |-> "stop", columns |-> {}, rows |-> <<>>,
          errors |-> {"File not found"}, warnings |-> {}]
    ELSE LET df_main == [i \in 1..Len(mainCsv) |-> Normalise(mainCsv[i])]
             cols == {"title", "overview", "genres", "cast", "directors",
                      "rating", "release_date"}
         IN  IF ratingsExists
             THEN IF {"title", "age_rating"} \subseteq ratingsCsv.columns
                  THEN [outcome |-> "ok",
                        columns |-> cols \cup {"age_rating"},
                        rows |-> WithIndex(merge_left(df_main, ratingsCsv.rows)),
                        errors |-> {}, warnings |-> {}]
                  ELSE [outcome |-> "ok", columns |-> cols,
                        rows |-> WithIndex(df_main),
                        errors |-> {},
                        warnings |-> {"required columns are missing"}]
             ELSE [outcome |-> "ok", columns |-> cols,
                   rows |-> WithIndex(df_main),
                   errors |-> {},
                   warnings |-> {"movies.csv not found"}]

\* ------------------------------------------------------- filter functions
\* A boolean mask df[mask] keeps the rows at which the mask holds, in the
\* frame's order: SelectSeq.

\* filter_by_genres without its guard: an empty selection matches nothing
filter_by_genres_unguarded(V, G) ==
    SelectSeq(V, LAMBDA r : \E g \in G : IsSubstr(g, r.genres))

\* filter_by_genres matching whole tags: a row is kept when one of its
\* ", "-separated tags is a selected genre
filter_by_genres_per_tag(V, G) ==
    IF G = {}
    THEN V
    ELSE SelectSeq(V, LAMBDA r : Range(split(r.genres)) \cap G # {})

\* filter_by_genres(df, selected_genres)
filter_by_genres(V, G) ==
    IF G = {}
    THEN V
    ELSE SelectSeq(V, LAMBDA r : \E g \in G : IsSubstr(g, r.genres))

\* re.compile(pat) succeeds: over the characters of Queries, a pattern is
\* rejected when it opens a group or a set that is never closed, or when a
\* star has nothing to repeat or repeats a star
re_compiles(pat) ==
    \A i \in 1..Len(pat) :
        /\ pat[i] \notin {"(", "["}
        /\ pat[i] = "*" => (i > 1 /\ pat[i - 1] # "*")

\* one pattern character against one text character
re_char(p, c) == p = "." \/ p = c

\* the pattern from position i on matches the text starting at position j
RECURSIVE re_match(_, _, _, _)
re_match(pat, i, txt, j) ==
    IF i > Len(pat)
    THEN TRUE
    ELSE IF i < Len(pat) /\ pat[i + 1] = "*"
         THEN \/ re_match(pat, i + 2, txt, j)
              \/ /\ j <= Len(txt)
                 /\ re_char(pat[i], txt[j])
                 /\ re_match(pat, i, txt, j + 1)
         ELSE /\ j <= Len(txt)
              /\ re_char(pat[i], txt[j])
              /\ re_match(pat, i + 1, txt, j + 1)

\* regex.search(txt) is not None
re_search(pat, txt) == \E j \in 1..(Len(txt) + 1) : re_match(pat, 1, txt, j)

\* Series.str.contains(pat) on one cell (regex=True is the default)
str_contains(txt, pat) == re_search(pat, txt)

\* search_movies(df, query): the rows, or the exception it raises
search_movies(V, query) ==
    IF query = NoneQuery \/ query = <<>>
    THEN [raised |-> "none", rows |-> V]
    ELSE LET q == Lower(query)
         IN  IF ~re_compiles(q)
             THEN [raised |-> "re.error", rows |-> <<>>]
             ELSE [raised |-> "none",
                   rows |-> SelectSeq(V, LAMBDA r :
                       \/ str_contains(Lower(r.title), q)
                       \/ str_contains(Lower(r.cast), q)
                       \/ str_contains(Lower(r.directors), q))]

\* main() lines 127-128: the age-rating filter
filter_age_rating(V, selected) ==
    IF selected # <<"A", "l", "l">>
    THEN SelectSeq(V, LAMBDA r : r.age_rating = selected)
    ELSE V

\* ----------------------------------------------------- sort, sample, head
\* every arrangement of the rows of a set
Arrangements(S) ==
    { f \in [1..Cardinality(S) -> S] :
        \A a, b \in 1..Cardinality(S) : a # b => f[a] # f[b] }

\* the value a descending sort_values(by=...) orders a row by: NaT is put
\* last (na_position="last"), so it stands below every date
SortKey(r, by) ==
    IF by = "rating"
    THEN r.rating
    ELSE IF r.release_date.valid THEN r.release_date.ymd ELSE 0 - 1

\* DataFrame.sort_values(by=..., ascending=False) with the default
\* kind="quicksort", which is not stable: the rows in non-increasing key
\* order, rows of equal key in any order
RECURSIVE sort_values_desc(_, _)
sort_values_desc(S, by) ==
    IF S = {}
    THEN { <<>> }
    ELSE LET top == { r \in S : \A o \in S : SortKey(o, by) <= SortKey(r, by) }
         IN  { a \o rest : a \in Arrangements(top),
                           rest \in sort_values_desc(S \ top, by) }

Reverse(V) == [k \in 1..Len(V) |-> V[Len(V) + 1 - k]]

\* sort_values(by="rating") with ascending left at its default
sort_top_rated_ascending(V) ==
    { Reverse(W) : W \in sort_values_desc(Range(V), "rating") }

\* sort_top_rated(df): the frames the call may return
sort_top_rated(V) == sort_values_desc(Range(V), "rating")

\* sort_most_recent sorting by the column sort_top_rated sorts by
sort_most_recent_by_rating(V) == sort_values_desc(Range(V), "rating")

\* sort_most_recent(df): the frames the call may return
sort_most_recent(V) == sort_values_desc(Range(V), "release_date")

Min(a, b) == IF a < b THEN a ELSE b

\* surprise_sample(df, count=5): df.sample(n) draws n distinct rows in a
\* random order; the frames the call may return
surprise_sample(V) ==
    LET n == Min(Len(V), SampleCount)
    IN  { [k \in 1..n |-> V[f[k]]] :
            f \in { g \in [1..n -> 1..Len(V)] :
                      \A a, b \in 1..n : a # b => g[a] # g[b] } }

\* head that keeps every row
head_all(V, n) == V

\* DataFrame.head(n)
head(V, n) == SubSeq(V, 1, Min(Len(V), n))

\* ------------------------------------------------------------ the widgets
\* line 98: the options of the genre multiselect
all_genres_of(frame) ==
    UNION { Range(split(r.genres)) : r \in Range(frame.rows) }

\* line 99: the options of the age-rating selectbox besides "All"
all_age_ratings_of(frame) ==
    IF "age_rating" \in frame.columns
    THEN { r.age_rating : r \in Range(frame.rows) } \ { NaN }
    ELSE {}

All == <<"A", "l", "l">>

\* the widget values a browser session can hold for a frame: the text
\* typed, the options picked among those offered, the three checkboxes and
\* whether "Show Movies" was pressed
Sessions(frame, queries, genreSets, sampling, pressed) ==
    [search_query : queries,
     selected_genres : genreSets,
     age_choice : {All} \cup all_age_ratings_of(frame),
     top_rated : BOOLEAN,
     most_recent : BOOLEAN,
     surprise_me : sampling,
     show_button : pressed]

NoFile == [columns |-> {}, rows |-> <<>>]

NoFrame == [columns |-> {}, rows |-> <<>>]

Unset ==
    [search_query |-> NoneQuery, selected_genres |-> {},
     selected_age_rating |-> All, filter_top_rated |-> FALSE,
     filter_most_recent |-> FALSE, filter_surprise_me |-> FALSE,
     show_button |-> FALSE]

\* ------------------------------------------------------------------ state
VARIABLES
    main_exists,     \* data/movies_complete.csv is there
    main_csv,        \* its rows
    ratings_exists,  \* data/movies.csv is there
    ratings_csv,     \* its columns and rows
    session,         \* the widget values the browser holds
    pc,              \* the line of the script the run is at
    df,              \* main(): df, the frame load_data returned
    ui,              \* main(): the values the widgets returned
    filtered_df,     \* main(): filtered_df
    alerts,          \* what st.error / st.warning have shown
    cards,           \* index labels of the cards rendered, in order
    raised           \* the exception that ended the run, or "none"

vars == << main_exists, main_csv, ratings_exists, ratings_csv, session, pc,
           df, ui, filtered_df, alerts, cards, raised >>

env == << main_exists, main_csv, ratings_exists, ratings_csv, session >>

\* the frame a run will load from the files, for the options a session has
\* been offered
Offered(mainExists, mainCsv, ratingsExists, ratingsCsv) ==
    LET got == load_data(mainExists, mainCsv, ratingsExists, ratingsCsv)
    IN  [columns |-> got.columns, rows |-> got.rows]

Start ==
    /\ pc = "load"
    /\ df = NoFrame
    /\ ui = Unset
    /\ filtered_df = <<>>
    /\ alerts = [errors |-> {}, warnings |-> {}]
    /\ cards = <<>>
    /\ raised = "none"

\* no dataset: the script stops before any widget exists
InitMissing ==
    /\ main_exists = FALSE
    /\ main_csv = <<>>
    /\ ratings_exists \in BOOLEAN
    /\ ratings_csv \in (IF ratings_exists THEN RatingsTables ELSE {NoFile})
    /\ session \in Sessions(NoFrame, {<<>>}, {{}}, {FALSE}, BOOLEAN)

\* a short main table with any side table; every widget is free and the
\* button was pressed
InitSmall ==
    /\ main_exists = TRUE
    /\ \E start \in Starts, n \in 0..MaxRows : main_csv = MainCsv(start, n)
    /\ ratings_exists \in BOOLEAN
    /\ ratings_csv \in (IF ratings_exists THEN RatingsTables ELSE {NoFile})
    /\ LET frame == Offered(main_exists, main_csv, ratings_exists, ratings_csv)
       IN  session \in Sessions(frame, Queries,
                                SUBSET all_genres_of(frame), BOOLEAN, {TRUE})

\* a long main table without a side table, nothing typed or picked: only
\* the checkboxes vary, and sampling is tried on tables up to MaxRowsSample
InitLarge ==
    /\ main_exists = TRUE
    /\ \E n \in (MaxRows + 1)..MaxRowsLarge : main_csv = MainCsv(0, n)
    /\ ratings_exists = FALSE
    /\ ratings_csv = NoFile
    /\ session \in Sessions(NoFrame, {<<>>}, {{}},
                            IF Len(main_csv) <= MaxRowsSample
                            THEN BOOLEAN ELSE {FALSE},
                            BOOLEAN)

Init ==
    /\ Start
    /\ (InitMissing \/ InitSmall \/ InitLarge)

\* ---------------------------------------------------------------- actions
\* line 97: df = load_data()
LoadData ==
    /\ pc = "load"
    /\ LET got == load_data(main_exists, main_csv, ratings_exists, ratings_csv)
       IN  /\ alerts' = [errors |-> alerts.errors \cup got.errors,
                         warnings |-> alerts.warnings \cup got.warnings]
           /\ IF got.outcome = "stop"
              THEN /\ pc' = "stopped"
                   /\ df' = df
              ELSE /\ pc' = "widgets"
                   /\ df' = [columns |-> got.columns, rows |-> got.rows]
    /\ UNCHANGED << env, ui, filtered_df, cards, raised >>

\* lines 98-125: the widgets return what the session holds
Widgets ==
    /\ pc = "widgets"
    /\ ui' = [search_query |-> session.search_query,
              selected_genres |-> session.selected_genres,
              selected_age_rating |->
                  IF all_age_ratings_of(df) # {}
                  THEN session.age_choice
                  ELSE All,
              filter_top_rated |-> session.top_rated,
              filter_most_recent |-> session.most_recent,
              filter_surprise_me |-> session.surprise_me,
              show_button |-> session.show_button]
    /\ pc' = IF session.show_button THEN "genres" ELSE "end"
    /\ UNCHANGED << env, df, filtered_df, alerts, cards, raised >>

\* line 126
FilterGenres ==
    /\ pc = "genres"
    /\ filtered_df' = filter_by_genres(df.rows, ui.selected_genres)
    /\ pc' = "age"
    /\ UNCHANGED << env, df, ui, alerts, cards, raised >>

\* lines 127-128
FilterAge ==
    /\ pc = "age"
    /\ filtered_df' = filter_age_rating(filtered_df, ui.selected_age_rating)
    /\ pc' = "search"
    /\ UNCHANGED << env, df, ui, alerts, cards, raised >>

\* line 129
Search ==
    /\ pc = "search"
    /\ LET got == search_movies(filtered_df, ui.search_query)
       IN  IF got.raised # "none"
           THEN /\ raised' = got.raised
                /\ pc' = "raised"
                /\ filtered_df' = filtered_df
           ELSE /\ raised' = raised
                /\ pc' = "top"
                /\ filtered_df' = got.rows
    /\ UNCHANGED << env, df, ui, alerts, cards >>

\* lines 131-132
TopRated ==
    /\ pc = "top"
    /\ IF ui.filter_top_rated
       THEN filtered_df' \in sort_top_rated(filtered_df)
       ELSE filtered_df' = filtered_df
    /\ pc' = "recent"
    /\ UNCHANGED << env, df, ui, alerts, cards, raised >>

\* lines 133-134
MostRecent ==
    /\ pc = "recent"
    /\ IF ui.filter_most_recent
       THEN filtered_df' \in sort_most_recent(filtered_df)
       ELSE filtered_df' = filtered_df
    /\ pc' = "surprise"
    /\ UNCHANGED << env, df, ui, alerts, cards, raised >>

\* lines 135-136
Surprise ==
    /\ pc = "surprise"
    /\ IF ui.filter_surprise_me
       THEN filtered_df' \in surprise_sample(filtered_df)
       ELSE filtered_df' = filtered_df
    /\ pc' = "head"
    /\ UNCHANGED << env, df, ui, alerts, cards, raised >>

\* lines 138-139
Truncate ==
    /\ pc = "head"
    /\ IF ~ui.filter_surprise_me
       THEN filtered_df' = head(filtered_df, HeadCount)
       ELSE filtered_df' = filtered_df
    /\ pc' = "render"
    /\ UNCHANGED << env, df, ui, alerts, cards, raised >>

\* show_movie_card(row) raises: row.release_date.date() on NaT is a
\* ValueError
card_raises(r) == ~r.release_date.valid

\* lines 141-148: one card per row until a card raises, or the warning
Render ==
    /\ pc = "render"
    /\ IF filtered_df # <<>>
       THEN LET bad == { k \in 1..Len(filtered_df) : card_raises(filtered_df[k]) }
                stop == IF bad = {}
                        THEN Len(filtered_df) + 1
                        ELSE CHOOSE k \in bad : \A j \in bad : k <= j
            IN  /\ cards' = [k \in 1..(stop - 1) |-> filtered_df[k].idx]
                /\ raised' = IF bad = {} THEN raised ELSE "ValueError"
                /\ pc' = IF bad = {} THEN "end" ELSE "raised"
                /\ alerts' = alerts
       ELSE /\ alerts' = [alerts EXCEPT !.warnings = @ \cup {"No movies match"}]
            /\ pc' = "end"
            /\ UNCHANGED << cards, raised >>
    /\ UNCHANGED << env, df, ui, filtered_df >>

Next ==
    \/ LoadData
    \/ Widgets
    \/ FilterGenres
    \/ FilterAge
    \/ Search
    \/ TopRated
    \/ MostRecent
    \/ Surprise
    \/ Truncate
    \/ Render

Spec == Init /\ [][Next]_vars

\* ============================================================== properties
\* W holds the rows of V, each once
IsPermutationOf(W, V) == Len(W) = Len(V) /\ Range(W) = Range(V)

\* where row r stands in V (rows differ in their index label)
PositionIn(V, r) == CHOOSE k \in 1..Len(V) : V[k] = r

\* W holds rows of V, each at most once, in the order they have in V
InOrderOf(W, V) ==
    /\ Range(W) \subseteq Range(V)
    /\ \A i, j \in 1..Len(W) : i < j => PositionIn(V, W[i]) < PositionIn(V, W[j])

\* date a is not later than date b, a missing date being older than any
NotLater(a, b) == ~a.valid \/ (b.valid /\ a.ymd <= b.ymd)

NonIncreasingRating(W) ==
    \A i, j \in 1..Len(W) : i < j => W[i].rating >= W[j].rating

NonIncreasingDate(W) ==
    \A i, j \in 1..Len(W) : i < j => NotLater(W[j].release_date, W[i].release_date)

\* the cells of the release_date column that are no date
NotADate(cell) == cell = NaN \/ cell = <<"u", "n", "k", "n", "o", "w", "n">>

\* the main-table fields of a frame row
MainFields(r) ==
    [title |-> r.title, overview |-> r.overview, genres |-> r.genres,
     cast |-> r.cast, directors |-> r.directors, rating |-> r.rating,
     release_date |-> r.release_date]

\* the frame row comes from a main-table row whose release_date is no date
FromUnparsable(r) ==
    \E m \in Range(main_csv) :
        Normalise(m) = MainFields(r) /\ NotADate(m.release_date)

Loaded == pc \notin {"load", "stopped"}

\* ---------------------------------------------------------------- C1
\* C1 (as claimed): once load_data has returned, every row of the frame has
\* a release_date that is a date (an unparsable cell having become
\* 1900-01-01), and no card ever fails on a missing date.
C1_EveryDatePresent ==
    /\ Loaded => \A r \in Range(df.rows) : r.release_date.valid
    /\ raised # "ValueError"

\* ---------------------------------------------------------------- C2
\* C2 (as claimed): search_movies with a non-empty query returns, in the
\* view's order, exactly the rows in which the lower-cased query occurs as a
\* literal substring of the lower-cased title, cast or directors.
C2_LiteralSearch ==
    [][(pc = "search" /\ ui.search_query \notin {NoneQuery, <<>>})
       => /\ pc' = "top"
          /\ InOrderOf(filtered_df', filtered_df)
          /\ Range(filtered_df') =
               { r \in Range(filtered_df) :
                   \/ IsSubstr(Lower(ui.search_query), Lower(r.title))
                   \/ IsSubstr(Lower(ui.search_query), Lower(r.cast))
                   \/ IsSubstr(Lower(ui.search_query), Lower(r.directors)) }]_vars

\* ---------------------------------------------------------------- C3
\* C3 (as claimed): the pipeline of "Show Movies", from the genre filter to
\* the truncation, never ends in an exception.  (The ValueError of the
\* model is raised later, by the cards.)
C3_PipelineNeverRaises == ~(pc = "raised" /\ raised = "re.error")

C5_GenreSubstring ==
    [][(pc = "genres" /\ ui.selected_genres # {})
       => /\ InOrderOf(filtered_df', df.rows)
          /\ Range(filtered_df') =
               { r \in Range(df.rows) :
                   \E g \in ui.selected_genres : IsSubstr(g, r.genres) }]_vars

\* C5 witness: "War" alone is selected and the row tagged "Cold War" is
\* kept.
C5_Witness ==
    /\ pc = "age"
    /\ ui.selected_genres = { <<"W", "a", "r">> }
    /\ \E r \in Range(filtered_df) :
          r.genres = <<"C", "o", "l", "d", " ", "W", "a", "r">>

\* ---------------------------------------------------------------- C6
\* C6: without surprise-me the truncation keeps the first min(len, 10) rows
\* of the view as the preceding steps ordered it, so at most 10 rows are
\* shown; with surprise-me the sample has min(len, 5) distinct rows of the
\* view and the truncation leaves it alone.
C6_Truncation ==
    [][/\ (pc = "head" /\ ~ui.filter_surprise_me)
          => /\ Len(filtered_df') <= HeadCount
             /\ filtered_df' =
                  SubSeq(filtered_df, 1, Min(Len(filtered_df), HeadCount))
       /\ (pc = "head" /\ ui.filter_surprise_me)
          => filtered_df' = filtered_df
       /\ (/\ pc = "head"
           /\ ~ui.filter_top_rated
           /\ ~ui.filter_most_recent
           /\ ~ui.filter_surprise_me)
          => InOrderOf(filtered_df, df.rows)
       /\ (pc = "surprise" /\ ui.filter_surprise_me)
          => /\ Len(filtered_df') = Min(Len(filtered_df), SampleCount)
             /\ Range(filtered_df') \subseteq Range(filtered_df)
             /\ Cardinality(Range(filtered_df')) = Len(filtered_df')]_vars

\* C6 witness: a view of more than 10 rows has been cut to 10.
C6_Witness ==
    /\ pc = "render"
    /\ ~ui.filter_surprise_me
    /\ Len(df.rows) > HeadCount
    /\ Len(filtered_df) = HeadCount

C8_NoOpLaws ==
    [][/\ (pc = "genres" /\ ui.selected_genres = {})
          => filtered_df' = df.rows
       /\ (pc = "age" /\ ui.selected_age_rating = All)
          => filtered_df' = filtered_df
       /\ (pc = "search" /\ ui.search_query \in {NoneQuery, <<>>})
          => (filtered_df' = filtered_df /\ pc' = "top")]_vars

\* C8 witness: all three no-ops ran on a frame that has rows.
C8_Witness ==
    /\ pc = "top"
    /\ ui.selected_genres = {}
    /\ ui.selected_age_rating = All
    /\ ui.search_query \in {NoneQuery, <<>>}
    /\ Len(df.rows) >= 2
    /\ filtered_df = df.rows

\* ---------------------------------------------------------------- C9
\* C9: sort_most_recent returns a permutation of its view that is
\* non-increasing in release_date, and every row whose release_date cell
\* was unparsable stands after every row whose cell was a date.
C9_MostRecent ==
    [][(pc = "recent" /\ ui.filter_most_recent)
       => /\ IsPermutationOf(filtered_df', filtered_df)
          /\ NonIncreasingDate(filtered_df')
          /\ \A i, j \in 1..Len(filtered_df') :
                (/\ FromUnparsable(filtered_df'[i])
                 /\ ~FromUnparsable(filtered_df'[j]))
                => j < i]_vars

\* C9 witness: most-recent has moved a row with an unparsable date behind a
\* row dated before 1900.
C9_Witness ==
    /\ pc = "surprise"
    /\ ui.filter_most_recent
    /\ \E i, j \in 1..Len(filtered_df) :
          /\ i < j
          /\ filtered_df[i].release_date.valid
          /\ filtered_df[i].release_date.ymd < 19000101
          /\ FromUnparsable(filtered_df[j])
          /\ filtered_df[j].idx < filtered_df[i].idx

\* ---------------------------------------------------------------- C10
\* C10: load_data either stops with an error (main file absent, nothing
\* returned) or returns a frame holding every main-table row; an absent
\* side table, or one without "title" or "age_rating", only adds a warning
\* and leaves the frame without an age_rating column.
C10_TwoTiers ==
    /\ ~main_exists
       => /\ pc \in {"load", "stopped"}
          /\ df = NoFrame
          /\ pc = "stopped" => alerts.errors # {}
    /\ (main_exists /\ pc # "load")
       => /\ pc # "stopped"
          /\ alerts.errors = {}
          /\ \A m \in Range(main_csv) :
                \E r \in Range(df.rows) : MainFields(r) = Normalise(m)
          /\ Len(df.rows) >= Len(main_csv)
          /\ (\/ ~ratings_exists
              \/ ~({"title", "age_rating"} \subseteq ratings_csv.columns))
             => /\ alerts.warnings # {}
                /\ "age_rating" \notin df.columns
                /\ Len(df.rows) = Len(main_csv)
          /\ (/\ ratings_exists
              /\ {"title", "age_rating"} \subseteq ratings_csv.columns)
             => "age_rating" \in df.columns

\* C10 witness: a joined frame in which a main row without a side row is
\* kept.
C10_Witness ==
    /\ pc = "widgets"
    /\ "age_rating" \in df.columns
    /\ \E r \in Range(df.rows) : r.age_rating = NaN
    /\ \E r \in Range(df.rows) : r.age_rating # NaN

====
